---------------------------- MODULE Spec2Model ----------------------------
(***************************************************************************)
(* Model of the tabular DefaultLearner's data preparation                  *)
(* (general_data_processing and the helpers it calls) and of the learner   *)
(* persistence of the forecasting AbstractLearner.                         *)
(*                                                                         *)
(* A DataFrame is a record [index |-> <<keys>>, cols |-> [name -> <<..>>]] *)
(* whose columns all have the length of the index.  A Series is a record   *)
(* [index |-> <<keys>>, vals |-> <<values>>].  Python's None is the string *)
(* "None" where a scalar is expected and the record NoneObj where a frame  *)
(* or a Series is expected.  A float that the code compares or divides     *)
(* (holdout_frac, a class weight) is an exact fraction                     *)
(* <<numerator, denominator>>.                                             *)
(***************************************************************************)
EXTENDS Integers, Sequences, FiniteSets, TLC

VARIABLES
    self,   \* the learner: the fields of DefaultLearner the operations read and write
    args,   \* the arguments of the operation under study
    ret,    \* what the last call of that operation returned or raised
    called, \* whether the operation has been called on this learner
    pc,     \* where a running _fit or save stands; "idle" outside of them
    disk    \* the files written: the learner file and the trainer file

vars == <<self, args, ret, called, pc, disk>>

None == "None"
NoneObj == [none |-> TRUE]
NaN == "nan"

\* The paths a trainer can be saved under
TrainerPaths == {"models_1", "models_2"}

\* The disk before anything is saved: no learner file, no trainer file
NoDisk == [learner |-> NoneObj, trainer |-> [p \in TrainerPaths |-> NoneObj]]

\* autogluon.core.constants, imported at default_learner.py:13
BINARY == "binary"
MULTICLASS == "multiclass"
REGRESSION == "regression"
QUANTILE == "quantile"
AUTO_WEIGHT == "auto_weight"
BALANCE_WEIGHT == "balance_weight"

ProblemTypes == {BINARY, MULTICLASS, REGRESSION, QUANTILE}

\* self.label: the name of the label column
label == "label"

----------------------------------------------------------------------------
(* Generic helpers *)

Min(a, b) == IF a <= b THEN a ELSE b
Max(a, b) == IF a >= b THEN a ELSE b

RECURSIVE SumSeq(_)
SumSeq(s) == IF s = <<>> THEN 0 ELSE Head(s) + SumSeq(Tail(s))

\* The positions i, i+1, ... of the boolean sequence mask that hold TRUE, in order
RECURSIVE Positions(_, _)
Positions(mask, i) ==
    IF i > Len(mask) THEN <<>>
    ELSE (IF mask[i] THEN <<i>> ELSE <<>>) \o Positions(mask, i + 1)

Range(s) == {s[i] : i \in DOMAIN s}

\* Fractions <<p, q>> with q > 0
FracLess(a, b) == a[1] * b[2] < b[1] * a[2]
FracEq(a, b) == a[1] * b[2] = b[1] * a[2]
FracMax(a, b) == IF FracLess(a, b) THEN b ELSE a

----------------------------------------------------------------------------
(* DataFrame and Series operations used by the learner *)

len(X) == Len(X.index)
columns(X) == DOMAIN X.cols

\* X.iloc[pos] for a sequence of positions pos: those rows, in that order
iloc(X, pos) ==
    [index |-> [i \in 1..Len(pos) |-> X.index[pos[i]]],
     cols |-> [c \in DOMAIN X.cols |-> [i \in 1..Len(pos) |-> X.cols[c][pos[i]]]]]

\* X[col] as a Series
column(X, col) == [index |-> X.index, vals |-> X.cols[col]]

\* X.drop(columns=col)
drop(X, col) ==
    [index |-> X.index, cols |-> [c \in (DOMAIN X.cols) \ {col} |-> X.cols[c]]]

\* X[col] = vals
assign(X, col, vals) ==
    [index |-> X.index,
     cols |-> [c \in (DOMAIN X.cols) \cup {col} |-> IF c = col THEN vals ELSE X.cols[c]]]

----------------------------------------------------------------------------
(* _check_for_non_finite_values, default_learner.py:346-359 *)

NonFinite == {"inf", "-inf", NaN, None}

\* Series.replace([np.inf, -np.inf], np.nan)
replace_inf(vals) ==
    [i \in DOMAIN vals |-> IF vals[i] \in {"inf", "-inf"} THEN NaN ELSE vals[i]]

\* Series.isna(): NaN and None are missing
isna(vals) == [i \in DOMAIN vals |-> vals[i] \in {NaN, None}]

\* (a slip: the key of the last row holding the maximum)
idxmax_last(index, bools) ==
    index[CHOOSE i \in DOMAIN bools : bools[i] /\ \A j \in DOMAIN bools : bools[j] => j <= i]

\* Series.idxmax() of a boolean Series with at least one True: the index key of
\* the first row holding the maximum
idxmax(index, bools) ==
    index[CHOOSE i \in DOMAIN bools : bools[i] /\ \A j \in DOMAIN bools : bools[j] => i <= j]

_check_for_non_finite_values(X, name, is_train) ==
    IF is_train \/ (X /= NoneObj /\ label \in columns(X))
    THEN LET X2 == assign(X, label, replace_inf(X.cols[label]))
             invalid_labels == isna(X2.cols[label])
         IN IF \E i \in DOMAIN invalid_labels : invalid_labels[i]
            THEN [raised |-> "ValueError", name |-> name,
                  first_invalid_label_idx |-> idxmax(X2.index, invalid_labels)]
            ELSE [raised |-> None, X |-> X2]
    ELSE [raised |-> None, X |-> X]

----------------------------------------------------------------------------
(* _adjust_threshold_if_necessary, default_learner.py:418-459.  y is the    *)
(* label vector X[self.label], a sequence of label values.                  *)

\* The number of rows of y holding the value c
count_of(y, c) == Cardinality({i \in DOMAIN y : y[i] = c})

\* The first position at or after i where y holds c (c occurs there or later)
first_pos(y, c, i) ==
    CHOOSE j \in i..Len(y) : y[j] = c /\ \A k \in i..(j - 1) : y[k] /= c

\* One <<class, count, first position>> per class of y
RECURSIVE class_tally(_, _)
class_tally(y, classes) ==
    IF classes = {} THEN <<>>
    ELSE LET c == CHOOSE c \in classes : TRUE
         IN <<(<<c, count_of(y, c), first_pos(y, c, 1)>>)>> \o class_tally(y, classes \ {c})

\* The tally sorted by falling count, classes of equal count in order of
\* first appearance
RECURSIVE sort_counts(_)
sort_counts(tally) ==
    IF tally = <<>> THEN <<>>
    ELSE LET k == CHOOSE k \in DOMAIN tally : \A j \in DOMAIN tally :
                      \/ tally[k][2] > tally[j][2]
                      \/ tally[k][2] = tally[j][2] /\ tally[k][3] <= tally[j][3]
             rest == [i \in 1..(Len(tally) - 1) |-> IF i < k THEN tally[i] ELSE tally[i + 1]]
         IN <<(<<tally[k][1], tally[k][2]>>)>> \o sort_counts(rest)

\* Series.value_counts(): <<class, count>> pairs, most frequent first
value_counts(y) == sort_counts(class_tally(y, Range(y)))

\* class_counts[class_counts >= t]
counts_at_least(class_counts, t) ==
    LET mask == [i \in DOMAIN class_counts |-> class_counts[i][2] >= t]
        pos == Positions(mask, 1)
    IN [i \in 1..Len(pos) |-> class_counts[pos[i]]]

\* class_counts.sum()
counts_sum(class_counts) == SumSeq([i \in DOMAIN class_counts |-> class_counts[i][2]])

\* (a slip: the product rounded down instead of up)
minimum_rows_to_keep_floor(total_rows) == (total_rows * 975) \div 1000

\* math.ceil(total_rows * 0.975), lines 437-438
minimum_rows_to_keep(total_rows) == (total_rows * 975 + 999) \div 1000

minimum_class_to_keep == 2

\* (a slip: the loop of lines 452-457 without its break)
RECURSIVE greedy_threshold_no_break(_, _, _, _, _)
greedy_threshold_no_break(class_counts, i, num_classes_valid, num_rows_valid, new_threshold) ==
    IF i > Len(class_counts) THEN new_threshold
    ELSE greedy_threshold_no_break(class_counts, i + 1, num_classes_valid + 1,
                                   num_rows_valid + class_counts[i][2], class_counts[i][2])

\* The loop of lines 449-457, entered at class i (1-based) with the running
\* num_classes_valid, num_rows_valid and new_threshold
RECURSIVE greedy_threshold(_, _, _, _, _)
greedy_threshold(class_counts, i, num_classes_valid, num_rows_valid, new_threshold) ==
    IF i > Len(class_counts) THEN new_threshold
    ELSE LET ncv == num_classes_valid + 1
             nrv == num_rows_valid + class_counts[i][2]
             nt == class_counts[i][2]
         IN IF nrv >= minimum_rows_to_keep(counts_sum(class_counts)) /\ ncv >= minimum_class_to_keep
            THEN nt
            ELSE greedy_threshold(class_counts, i + 1, ncv, nrv, nt)

\* (a slip: the test of line 446 left out, so that the loop always runs)
threshold_is_enough_never(class_counts, new_threshold) == FALSE

\* The test of line 446 on the classes that survive new_threshold, lines 442-446
threshold_is_enough(class_counts, new_threshold) ==
    LET class_counts_valid == counts_at_least(class_counts, new_threshold)
        num_rows_valid == counts_sum(class_counts_valid)
        num_classes_valid == Len(class_counts_valid)
    IN /\ num_rows_valid >= minimum_rows_to_keep(counts_sum(class_counts))
       /\ num_classes_valid >= minimum_class_to_keep

\* (a slip: the safe threshold of a bagged fit taken as 1)
minimum_safe_threshold_one(num_bag_folds) == 1

\* Lines 424-427
minimum_safe_threshold(num_bag_folds) == IF num_bag_folds < 2 THEN 1 ELSE 2

\* (a slip: the request kept although it is below the safe threshold)
raise_to_safe_skipped(threshold, safe) == threshold

\* Lines 429-430
raise_to_safe(threshold, safe) == IF safe > threshold THEN safe ELSE threshold

_adjust_threshold_if_necessary(y, threshold, holdout_frac, num_bag_folds, problem_type) ==
    LET num_rows == Len(y)
    IN IF num_rows = 0
       THEN [raised |-> "ZeroDivisionError"]     \* 1 / num_rows, line 421
       ELSE
       LET hf == FracMax(holdout_frac, <<1000 + num_rows, 1000 * num_rows>>)
           nbf == Min(num_bag_folds, num_rows)
           new_threshold == raise_to_safe(threshold, minimum_safe_threshold(nbf))
           class_counts == value_counts(y)
       IN IF problem_type \in {REGRESSION, QUANTILE}
          THEN [raised |-> None, threshold |-> new_threshold,
                holdout_frac |-> hf, num_bag_folds |-> nbf]
          ELSE IF threshold_is_enough(class_counts, new_threshold)
          THEN [raised |-> None, threshold |-> new_threshold,
                holdout_frac |-> hf, num_bag_folds |-> nbf]
          ELSE [raised |-> None, threshold |-> greedy_threshold(class_counts, 1, 0, 0, 0),
                holdout_frac |-> hf, num_bag_folds |-> nbf]

\* (a slip: the comparison of line 409 turned round)
threshold_is_warned_when_raised(new_threshold, threshold) ==
    new_threshold /= threshold /\ new_threshold > threshold

\* Lines 408-409: the threshold warning is logged only for a lower threshold
threshold_is_warned(new_threshold, threshold) ==
    new_threshold /= threshold /\ new_threshold < threshold

\* adjust_threshold_if_necessary, lines 406-416: the same triple, and the
\* warnings logged on the way
adjust_threshold_if_necessary(y, threshold, holdout_frac, num_bag_folds, problem_type) ==
    LET new == _adjust_threshold_if_necessary(y, threshold, holdout_frac, num_bag_folds, problem_type)
    IN IF new.raised /= None THEN new
       ELSE [raised |-> None, threshold |-> new.threshold,
             holdout_frac |-> new.holdout_frac, num_bag_folds |-> new.num_bag_folds,
             warnings |->
                (IF threshold_is_warned(new.threshold, threshold)
                 THEN {<<"Updated", "label_count_threshold">>} ELSE {})
                \cup (IF ~FracEq(new.holdout_frac, holdout_frac) /\ FracLess(holdout_frac, new.holdout_frac)
                      THEN {<<"Updated", "holdout_frac">>} ELSE {})
                \cup (IF new.num_bag_folds /= num_bag_folds THEN {<<"Updated", "num_bag_folds">>} ELSE {})]

----------------------------------------------------------------------------
(* Specification SpecCheck: _check_for_non_finite_values applied to one     *)
(* split.                                                                   *)

MaxCheckRows == 3

Classes == {"a", "b"}

\* Row keys: a RangeIndex 0..n-1, or keys that fall as the rows advance
make_index(style, n) ==
    [i \in 1..n |-> IF style = "range" THEN i - 1 ELSE 10 * (n - i) + 7]

IndexStyles == {"range", "custom"}

SeqsUpTo(S, n) == UNION {[1..k -> S] : k \in 0..n}

\* A frame with one feature column x holding row identifiers base+1, base+2, ...
features_frame(index, base) ==
    [index |-> index, cols |-> [c \in {"x"} |-> [i \in DOMAIN index |-> base + i]]]

labelled_frame(index, base, labels) == assign(features_frame(index, base), label, labels)

CheckArgs ==
    {[X |-> labelled_frame(make_index(st, Len(l)), 0, l), name |-> "train", is_train |-> TRUE] :
        st \in IndexStyles, l \in SeqsUpTo({"a"} \cup NonFinite, MaxCheckRows)}
    \cup
    {[X |-> labelled_frame(make_index(st, Len(l)), 0, l), name |-> "val", is_train |-> FALSE] :
        st \in IndexStyles, l \in SeqsUpTo({"a"} \cup NonFinite, MaxCheckRows)}
    \cup
    {[X |-> features_frame(make_index(st, n), 0), name |-> "test", is_train |-> FALSE] :
        st \in IndexStyles, n \in 0..MaxCheckRows}
    \cup
    {[X |-> NoneObj, name |-> "test", is_train |-> FALSE]}

NoCall == [raised |-> None]

InitCheck ==
    /\ self = [label |-> label]
    /\ args \in CheckArgs
    /\ ret = NoCall
    /\ called = FALSE
    /\ pc = "idle"
    /\ disk = NoDisk

check_for_non_finite_values ==
    /\ ~called
    /\ ret' = _check_for_non_finite_values(args.X, args.name, args.is_train)
    /\ called' = TRUE
    /\ UNCHANGED <<self, args, pc, disk>>

NextCheck == check_for_non_finite_values

SpecCheck == InitCheck /\ [][NextCheck]_vars

\* The positions of the rows of a label column whose label is not finite
non_finite_rows(labels) == {i \in DOMAIN labels : labels[i] \in NonFinite}

\* C1: on a training split the validator raises exactly when some label is
\* +inf, -inf, NaN or None, and the key it reports is the index key of the
\* first such row in row order.
C1_FirstNonFiniteRowReported ==
    (called /\ args.is_train) =>
        LET bad == non_finite_rows(args.X.cols[label])
        IN IF bad = {}
           THEN ret.raised = None
           ELSE /\ ret.raised = "ValueError"
                /\ \E i \in bad :
                      /\ \A j \in bad : i <= j
                      /\ ret.first_invalid_label_idx = args.X.index[i]

\* A training split with an infinite label in its second row and another
\* non-finite label after it, under keys that are not the row positions
C1_Witness ==
    /\ called
    /\ args.is_train
    /\ args.X.cols[label] = <<"a", "-inf", NaN>>
    /\ args.X.index = <<27, 17, 7>>
    /\ ret.raised = "ValueError"
    /\ ret.first_invalid_label_idx = 17

----------------------------------------------------------------------------
(* Specification SpecAdjust: adjust_threshold_if_necessary applied to one   *)
(* training label vector.                                                   *)

MaxSmallCount == 2
MaxThreshold == 2
MaxBagFolds == 2

\* The class counts of the worked example of the threshold adjuster
ScenarioCounts == {1, 50, 100}

AdjustClasses == <<"a", "b", "c">>

\* The label vector holding n[k] rows of class AdjustClasses[k], class by class
label_vector(n) ==
    [i \in 1..(n[1] + n[2] + n[3]) |->
        IF i <= n[1] THEN AdjustClasses[1]
        ELSE IF i <= n[1] + n[2] THEN AdjustClasses[2] ELSE AdjustClasses[3]]

AdjustLabelVectors ==
    {label_vector(n) : n \in [1..3 -> (0..MaxSmallCount) \cup ScenarioCounts]}

ThresholdRequests == (0..MaxThreshold) \cup {10, 51, 101}

HoldoutFracs == {<<1, 10>>, <<1, 1>>}

AdjustArgs ==
    [y : AdjustLabelVectors, threshold : ThresholdRequests,
     holdout_frac : HoldoutFracs, num_bag_folds : 0..MaxBagFolds]

InitAdjust ==
    /\ self \in [problem_type : ProblemTypes]
    /\ args \in AdjustArgs
    /\ ret = NoCall
    /\ called = FALSE
    /\ pc = "idle"
    /\ disk = NoDisk

adjust_threshold ==
    /\ ~called
    /\ ret' = adjust_threshold_if_necessary(args.y, args.threshold, args.holdout_frac,
                                            args.num_bag_folds, self.problem_type)
    /\ called' = TRUE
    /\ UNCHANGED <<self, args, pc, disk>>

NextAdjust == adjust_threshold

SpecAdjust == InitAdjust /\ [][NextAdjust]_vars

Returned == called /\ ret.raised = None

\* The classes of y that a cleaner with threshold t keeps, and their rows
kept_classes(y, t) == {c \in Range(y) : count_of(y, c) >= t}
kept_rows(y, t) ==
    LET kept == kept_classes(y, t)
    IN Cardinality({i \in DOMAIN y : y[i] \in kept})

\* C2: for a binary or multiclass problem the returned threshold keeps at
\* least ceil(0.975 * total_rows) rows and at least 2 classes when the data
\* has 2 classes or more, and keeps every row when it has fewer.
C2_ThresholdKeepsEnough ==
    (Returned /\ self.problem_type \in {BINARY, MULTICLASS}) =>
        IF Cardinality(Range(args.y)) >= 2
        THEN /\ 1000 * kept_rows(args.y, ret.threshold) >= 975 * Len(args.y)
             /\ Cardinality(kept_classes(args.y, ret.threshold)) >= 2
        ELSE kept_rows(args.y, ret.threshold) = Len(args.y)

\* A request too high for the data: two classes must be added back, which
\* lowers the threshold to the count of the second class
C2_Witness ==
    /\ Returned
    /\ self.problem_type = MULTICLASS
    /\ args.threshold = 101
    /\ Cardinality(Range(args.y)) = 3
    /\ ret.threshold = 50
    /\ kept_rows(args.y, ret.threshold) < Len(args.y)

\* The threshold that would be returned for the request t, the other
\* arguments being those of the call
returned_for(t) ==
    adjust_threshold_if_necessary(args.y, t, args.holdout_frac,
                                  args.num_bag_folds, self.problem_type).threshold

\* C3: with the same labels, holdout_frac, num_bag_folds and problem type, a
\* higher requested threshold never gets a lower returned threshold.
C3_MonotonicInRequest ==
    Returned =>
        \A t2 \in ThresholdRequests :
            args.threshold <= t2 => ret.threshold <= returned_for(t2)

\* Two requests on the same labels, the lower kept as asked and the higher
\* lowered by the class-frequency rule
C3_Witness ==
    /\ Returned
    /\ self.problem_type = BINARY
    /\ args.threshold = 2
    /\ ret.threshold = 2
    /\ returned_for(51) = 50

IsScenario ==
    /\ self.problem_type = MULTICLASS
    /\ {count_of(args.y, c) : c \in Range(args.y)} = {100, 50, 1}
    /\ Cardinality(Range(args.y)) = 3
    /\ args.threshold = 1
    /\ args.num_bag_folds = 0

\* C4 as claimed: on class counts {100, 50, 1} with request 1 and no
\* bagging the adjuster returns 50.
C4_ScenarioReturns50 == (Returned /\ IsScenario) => ret.threshold = 50

\* C4 as amended: on class counts {100, 50, 1} with request 1 and no
\* bagging the adjuster returns 1, the request, and warns of no change of the
\* threshold: every class, the one of count 1 included, survives the filter.
C4_ScenarioReturns1 ==
    (Returned /\ IsScenario) =>
        /\ ret.threshold = 1
        /\ kept_classes(args.y, ret.threshold) = Range(args.y)

C4_Witness == Returned /\ IsScenario /\ ret.threshold = 1

\* C10: for regression and quantile the returned threshold is the larger of
\* the request and the minimum safe threshold (2 when the clamped
\* num_bag_folds is at least 2, else 1), whatever the labels are.
C10_RegressionThreshold ==
    (Returned /\ self.problem_type \in {REGRESSION, QUANTILE}) =>
        LET clamped == IF args.num_bag_folds <= Len(args.y)
                       THEN args.num_bag_folds ELSE Len(args.y)
            safe == IF clamped >= 2 THEN 2 ELSE 1
        IN /\ ret.threshold = (IF args.threshold >= safe THEN args.threshold ELSE safe)
           /\ ret.num_bag_folds = clamped

\* A quantile fit with bagging on labels that the class-frequency rule would
\* have answered otherwise, and one whose folds are clamped by a single row
C10_Witness ==
    /\ Returned
    /\ self.problem_type = QUANTILE
    /\ args.threshold = 0
    /\ args.num_bag_folds = 2
    /\ ret.threshold = 2
    /\ \E c \in Range(args.y) : count_of(args.y, c) = 1

\* One of the three results differs from what the caller asked for
any_output_changed ==
    \/ ret.threshold /= args.threshold
    \/ ~FracEq(ret.holdout_frac, args.holdout_frac)
    \/ ret.num_bag_folds /= args.num_bag_folds

\* C11 as stated: a warning is logged whenever the returned threshold,
\* holdout_frac or num_bag_folds differs from the request, and none when all
\* three are unchanged.
C11_WarnsOnAnyChange ==
    Returned => (any_output_changed <=> ret.warnings /= {})

\* C11, amended: the threshold warning is logged exactly when the returned
\* threshold is lower than the request, the holdout_frac warning exactly when
\* the returned holdout_frac differs from (is greater than) the request, the
\* num_bag_folds warning exactly when the returned num_bag_folds differs; a
\* threshold that was raised is not warned about; no warning is logged when
\* all three are unchanged.
C11_WarnsOnLoweredThreshold ==
    Returned =>
        /\ <<"Updated", "label_count_threshold">> \in ret.warnings
              <=> ret.threshold < args.threshold
        /\ <<"Updated", "holdout_frac">> \in ret.warnings
              <=> ~FracEq(ret.holdout_frac, args.holdout_frac)
        /\ ~FracEq(ret.holdout_frac, args.holdout_frac)
              => FracLess(args.holdout_frac, ret.holdout_frac)
        /\ <<"Updated", "num_bag_folds">> \in ret.warnings
              <=> ret.num_bag_folds /= args.num_bag_folds
        /\ ~any_output_changed => ret.warnings = {}

\* C11 witness: a request of 10 was lowered and warned about, while the
\* holdout_frac and the num_bag_folds came back as asked and without warning
C11_Witness ==
    /\ Returned
    /\ args.threshold = 10
    /\ ret.threshold < 10
    /\ ret.num_bag_folds = args.num_bag_folds
    /\ ret.warnings = {<<"Updated", "label_count_threshold">>}

\* The minimum safe threshold of the call: 2 when the clamped num_bag_folds
\* is at least 2, else 1
safe_threshold_of_call ==
    IF args.num_bag_folds >= 2 /\ Len(args.y) >= 2 THEN 2 ELSE 1

\* The request raised to the minimum safe threshold
raised_request ==
    IF args.threshold >= safe_threshold_of_call
    THEN args.threshold ELSE safe_threshold_of_call

\* Filtering the labels at threshold t keeps enough rows and classes
keeps_enough(t) ==
    /\ 1000 * kept_rows(args.y, t) >= 975 * Len(args.y)
    /\ Cardinality(kept_classes(args.y, t)) >= 2

\* C15 as stated: for every label distribution, requested threshold and
\* problem type the returned threshold is never below the minimum safe
\* threshold (2 when the clamped num_bag_folds is at least 2, else 1).
C15_NeverBelowSafeThreshold ==
    Returned => ret.threshold >= safe_threshold_of_call

\* C15, amended: the returned threshold is at least 1; it is the request
\* raised to the minimum safe threshold, so never below that minimum, for
\* regression and quantile and whenever filtering at the raised request keeps
\* enough rows and classes; otherwise it is the count of a class of the
\* labels, which can lie below the minimum safe threshold.
C15_SafeUnlessLoopLowers ==
    Returned =>
        /\ ret.threshold >= 1
        /\ IF \/ self.problem_type \in {REGRESSION, QUANTILE}
              \/ keeps_enough(raised_request)
           THEN ret.threshold = raised_request /\ ret.threshold >= safe_threshold_of_call
           ELSE \E c \in Range(args.y) : ret.threshold = count_of(args.y, c)

\* C15 witness: with two bagging folds and two classes of one row each, the
\* loop returns 1, below the minimum safe threshold 2
C15_Witness ==
    /\ Returned
    /\ self.problem_type = MULTICLASS
    /\ args.y = <<"a", "b">>
    /\ args.num_bag_folds = 2
    /\ args.threshold = 2
    /\ ret.threshold = 1

----------------------------------------------------------------------------
(* The collaborators of general_data_processing whose code lies outside the *)
(* learner: the cleaner, the label cleaner, extract_column, the rare-class  *)
(* augmentation and the feature generator.                                  *)

\* The order in which label values sort
ClassOrder == <<"a", "b", "c">>

sort_rank(c) == CHOOSE k \in DOMAIN ClassOrder : ClassOrder[k] = c

\* Cleaner.construct(problem_type, label, threshold).fit_transform(X): for
\* binary and multiclass the cleaner keeps the classes that have at least
\* threshold rows of X; for the other problem types it keeps every row
cleaner_fit(problem_type, X, threshold) ==
    IF problem_type \in {BINARY, MULTICLASS}
    THEN [kind |-> "multiclass",
          valid_classes |-> {c \in Range(X.cols[label]) : count_of(X.cols[label], c) >= threshold}]
    ELSE [kind |-> "dummy", valid_classes |-> {}]

\* cleaner.transform(X): the rows of X whose label is a class the cleaner keeps
cleaner_transform(cleaner, X) ==
    IF cleaner.kind = "dummy" THEN X
    ELSE iloc(X, Positions([i \in DOMAIN X.index |->
                               X.cols[label][i] \in cleaner.valid_classes], 1))

\* self.extract_label(X): <<X without the label column, the label vector>>
extract_label(X) == <<drop(X, label), X.cols[label]>>

\* LabelCleaner.construct(problem_type, y, y_uncleaned, positive_class): for
\* binary and multiclass the classes of y, in sorted order, are encoded as
\* 0..num_classes-1; for the other problem types labels are left as they are
label_cleaner_construct(problem_type, y) ==
    IF problem_type \in {BINARY, MULTICLASS}
    THEN [kind |-> "classes",
          num_classes |-> Cardinality(Range(y)),
          code |-> [c \in Range(y) |->
                      Cardinality({d \in Range(y) : sort_rank(d) < sort_rank(c)})]]
    ELSE [kind |-> "dummy", num_classes |-> 0, code |-> [c \in {} |-> 0]]

\* label_cleaner.transform(y)
label_cleaner_transform(label_cleaner, y) ==
    IF label_cleaner.kind = "dummy" THEN y
    ELSE [i \in DOMAIN y |-> label_cleaner.code[y[i]]]

\* extract_column(X, col_name): <<X without the column, the column>>, and
\* <<X, None>> when col_name is None or no column of X
extract_column(X, col_name) ==
    IF col_name = None \/ col_name \notin columns(X)
    THEN <<X, NoneObj>>
    ELSE <<drop(X, col_name), [vals |-> X.cols[col_name]]>>

\* max(X.index), 0 for an empty frame
RECURSIVE max_key(_)
max_key(index) ==
    IF index = <<>> THEN 0 ELSE Max(Head(index), max_key(Tail(index)))

\* augment_rare_classes(X, label, threshold=2): every class with a single row
\* has that row appended once more, under fresh keys after the largest key
augment_rare_classes(X) ==
    LET y == X.cols[label]
        rare == Positions([i \in DOMAIN y |-> count_of(y, y[i]) < 2], 1)
        n == len(X)
        pos == [i \in 1..(n + Len(rare)) |-> IF i <= n THEN i ELSE rare[i - n]]
        dup == iloc(X, pos)
    IN [index |-> [i \in 1..(n + Len(rare)) |->
                             IF i <= n THEN X.index[i] ELSE max_key(X.index) + (i - n)],
        cols |-> dup.cols]

\* The feature generator before any fit
UnfitGenerator == [is_fit |-> FALSE, fits |-> 0, fit_on |-> <<>>]

\* feature_generator.transform(X): row for row and in row order, the raw
\* feature x of the row turned into the features of the current fit
generator_transform(generator, X) ==
    [index |-> X.index,
     cols |-> [c \in {"features"} |->
                 [i \in DOMAIN X.index |-> <<X.cols["x"][i], generator.fit_on>>]]]

\* The fit of feature_generator.fit_transform(X, y): the generator is fit
\* on the rows of X it is given
generator_fit(generator, X) ==
    [is_fit |-> TRUE, fits |-> generator.fits + 1, fit_on |-> X.cols["x"]]

----------------------------------------------------------------------------
(* set_predefined_weights, default_learner.py:325-344.  s is the learner;   *)
(* the result carries the frame and the learner's class_weights afterwards. *)

\* (a slip: the number of classes left out of the weight)
balance_weights_no_k(y) ==
    LET class_counts == value_counts(y)
    IN [c \in {class_counts[i][1] : i \in DOMAIN class_counts} |->
          <<Len(y), count_of(y, c)>>]

\* Lines 334-337: the weight n / (class_counts[c] * k) of every class c of y
balance_weights(y) ==
    LET class_counts == value_counts(y)
        n == Len(y)
        k == Len(class_counts)
    IN [c \in {class_counts[i][1] : i \in DOMAIN class_counts} |->
          <<n, count_of(y, c) * k>>]

set_predefined_weights(s, X, y) ==
    IF s.sample_weight \notin {AUTO_WEIGHT, BALANCE_WEIGHT}
       \/ s.problem_type \notin {BINARY, MULTICLASS}
    THEN [raised |-> None, X |-> X, class_weights |-> s.class_weights]
    ELSE IF s.sample_weight \in columns(X)
    THEN [raised |-> "ValueError", message |-> <<"column name", s.sample_weight>>,
          class_weights |-> s.class_weights]
    ELSE IF s.sample_weight = BALANCE_WEIGHT
    THEN LET class_weights == IF s.class_weights = NoneObj
                              THEN [weights |-> balance_weights(y)]
                              ELSE s.class_weights
             \* y.map(self.class_weights): NaN for a class without weight
             w == [i \in DOMAIN y |->
                     IF y[i] \in DOMAIN class_weights.weights
                     THEN class_weights.weights[y[i]] ELSE NaN]
         IN [raised |-> None, X |-> assign(X, s.sample_weight, w),
             class_weights |-> class_weights]
    ELSE [raised |-> "NotImplementedError", message |-> <<"strategy", AUTO_WEIGHT>>,
          class_weights |-> s.class_weights]

----------------------------------------------------------------------------
(* _apply_cleaner_transform, default_learner.py:361-404 *)

\* (a slip: the holdout fraction in force kept when the split is discarded)
holdout_frac_after_discard_kept(holdout_frac, holdout_frac_og) == holdout_frac

\* Line 394
holdout_frac_after_discard(holdout_frac, holdout_frac_og) == holdout_frac_og

_apply_cleaner_transform(s, X, holdout_frac, holdout_frac_og, name, is_test) ==
    IF X /= NoneObj /\ label \in columns(X)
    THEN LET len_og == len(X)
             X1 == cleaner_transform(s.cleaner, X)
         IN IF is_test /\ len(X1) /= len_og
            THEN [raised |-> "AssertionError", message |-> <<"low frequency classes", name>>]
            ELSE IF len(X1) = 0
            THEN [raised |-> None, X |-> NoneObj, y |-> NoneObj, w |-> NoneObj,
                  holdout_frac |-> holdout_frac_after_discard(holdout_frac, holdout_frac_og),
                  warnings |-> {<<"all low frequency", name>>}]
            ELSE LET Xy == extract_label(X1)
                     y == label_cleaner_transform(s.label_cleaner, Xy[2])
                     spw == set_predefined_weights(s, Xy[1], y)
                 IN IF spw.raised /= None THEN spw
                    ELSE LET Xw == extract_column(spw.X, s.sample_weight)
                         IN [raised |-> None, X |-> Xw[1], y |-> [vals |-> y], w |-> Xw[2],
                             holdout_frac |-> holdout_frac, warnings |-> {}]
    ELSE [raised |-> None, X |-> X, y |-> NoneObj, w |-> NoneObj,
          holdout_frac |-> holdout_frac, warnings |-> {}]

----------------------------------------------------------------------------
(* bundle_weights, default_learner.py:306-323 *)

\* (a slip: the missing weights of a split filled in even when
\*  weight_evaluation asks for them)
missing_weights_are_filled_always(s) == TRUE

\* Line 313
missing_weights_are_filled(s) == ~s.weight_evaluation

bundle_weights(s, X, w, name, is_train) ==
    IF is_train
    THEN [raised |-> None, X |-> IF w /= NoneObj THEN assign(X, s.sample_weight, w.vals) ELSE X]
    ELSE IF X /= NoneObj
    THEN IF w /= NoneObj
         THEN [raised |-> None, X |-> assign(X, s.sample_weight, w.vals)]
         ELSE IF missing_weights_are_filled(s)
         THEN [raised |-> None,
               X |-> assign(X, s.sample_weight, [i \in DOMAIN X.index |-> NaN])]
         ELSE [raised |-> "ValueError",
               message |-> <<"sample_weight column", s.sample_weight, "missing from", name>>]
    ELSE [raised |-> None, X |-> X]

----------------------------------------------------------------------------
(* general_data_processing, default_learner.py:200-304 *)

\* self.eval_metric.needs_proba
needs_proba(eval_metric) == eval_metric = "log_loss"

\* Line 259
transform_with_test == FALSE

\* Two frames one under the other; a column one of them lacks is NaN there
concat2(A, B) ==
    LET n == len(A)
        cell(F, c, i) == IF c \in columns(F) THEN F.cols[c][i] ELSE NaN
    IN [index |-> A.index \o B.index,
        cols |-> [c \in columns(A) \cup columns(B) |->
                    [i \in 1..(n + len(B)) |->
                               IF i <= n THEN cell(A, c, i) ELSE cell(B, c, i - n)]]]

\* pd.concat(datasets, ignore_index=True): the frames that are not None one
\* under the other, in list order, under the keys 0, 1, 2, ...
RECURSIVE concat_from(_, _)
concat_from(datasets, i) ==
    IF i > Len(datasets) THEN [index |-> <<>>, cols |-> [c \in {} |-> <<>>]]
    ELSE IF datasets[i] = NoneObj THEN concat_from(datasets, i + 1)
    ELSE concat2(datasets[i], concat_from(datasets, i + 1))

concat(datasets) ==
    LET all == concat_from(datasets, 1)
    IN [index |-> [i \in DOMAIN all.index |-> i - 1], cols |-> all.cols]

\* DataFrame.set_index(index)
set_index(X, index) == [index |-> index, cols |-> X.cols]

\* (a slip: every slice taken from the top of the combined frame)
slice_from_ignoring_idx(X_super, idx, length) ==
    iloc(X_super, [k \in 1..length |-> k])

\* X_super.iloc[idx : idx + length], line 291
slice_from(X_super, idx, length) ==
    iloc(X_super, [k \in 1..length |-> idx + k])

\* The loop of lines 287-292 from list position i on, idx rows being taken
RECURSIVE reslice(_, _, _, _)
reslice(datasets, X_super, i, idx) ==
    IF i > Len(datasets) THEN <<>>
    ELSE IF datasets[i] /= NoneObj
    THEN LET length == len(datasets[i])
         IN <<set_index(slice_from(X_super, idx, length), datasets[i].index)>>
            \o reslice(datasets, X_super, i + 1, idx + length)
    ELSE <<NoneObj>> \o reslice(datasets, X_super, i + 1, idx)

\* (a slip: the generator fit again although it is fit)
use_transform_only_never(generator) == FALSE

\* generator.is_fit(), the test of line 270
use_transform_only(generator) == generator.is_fit

\* Lines 267-298: the new feature generator, the four re-sliced datasets,
\* the transformed X_test, and the generator methods called, in order, each
\* with the name of the frame it was given
unify_features(generator, X, X_val, X_test, X_unlabeled) ==
    LET X_test_super == IF transform_with_test THEN X_test ELSE NoneObj
        datasets == <<X, X_val, X_test_super, X_unlabeled>>
        X_super == concat(datasets)
        fit_now == ~use_transform_only(generator)
        generator1 == IF fit_now THEN generator_fit(generator, X_super) ELSE generator
        X_super1 == generator_transform(generator1, X_super)
        test_apart == ~transform_with_test /\ X_test /= NoneObj
        X_test1 == IF test_apart THEN generator_transform(generator1, X_test) ELSE X_test
        out == reslice(datasets, X_super1, 1, 0)
    IN [generator |-> generator1,
        datasets_in |-> datasets,
        datasets |-> out,
        X_test |-> IF transform_with_test THEN out[3] ELSE X_test1,
        generator_calls |->
            <<(<<(IF fit_now THEN "fit_transform" ELSE "transform"), "X_super">>)>>
            \o (IF test_apart THEN <<(<<"transform", "X_test">>)>> ELSE <<>>)]

\* (a slip: the error raised only after the feature generator was fit)
Fail_after_fit(s, err) ==
    [self |-> [s EXCEPT !.feature_generator =
                            [is_fit |-> TRUE, fits |-> @.fits + 1, fit_on |-> <<>>]],
     ret |-> [raised |-> err.raised, message |-> err.message,
              generator_calls |-> <<(<<"fit_transform", "X_super">>)>>]]

\* What a failed call leaves: the learner as it was when the error was raised
Fail(s, err) ==
    [self |-> s, ret |-> [raised |-> err.raised, message |-> err.message,
                          generator_calls |-> <<>>]]

\* The body of general_data_processing follows in its stages, last stage
\* first; every stage is given the learner and the locals as the lines before
\* it leave them.

\* Lines 300-304: the weights bundled and the ten results returned.
\* bundle_in records what lines 302-303 are given.
gdp_bundle(s, w, y, val, test, uni, num_bag_folds, groups, warnings) ==
    LET s5 == [s EXCEPT !.feature_generator = uni.generator]
        bX == bundle_weights(s5, uni.datasets[1], w, "X", TRUE)
        bX_val == bundle_weights(s5, uni.datasets[2], val.w, "X_val", FALSE)
        bX_test == bundle_weights(s5, uni.X_test, test.w, "X_test", FALSE)
        bundle_in == [X_val |-> uni.datasets[2], w_val |-> val.w,
                      X_test |-> uni.X_test, w_test |-> test.w]
        failed(b) == [self |-> s5,
                      ret |-> [raised |-> b.raised, message |-> b.message,
                               bundle_in |-> bundle_in,
                               generator_calls |-> uni.generator_calls]]
    IN
    IF bX_val.raised /= None THEN failed(bX_val)
    ELSE IF bX_test.raised /= None THEN failed(bX_test)
    ELSE [self |-> s5,
          ret |-> [raised |-> None,
                   X |-> bX.X, y |-> y,
                   X_val |-> bX_val.X, y_val |-> val.y,
                   X_test |-> bX_test.X, y_test |-> test.y,
                   X_unlabeled |-> uni.datasets[4],
                   holdout_frac |-> val.holdout_frac,
                   num_bag_folds |-> num_bag_folds,
                   groups |-> groups,
                   warnings |-> warnings \cup val.warnings,
                   datasets_in |-> uni.datasets_in,
                   bundle_in |-> bundle_in,
                   generator_calls |-> uni.generator_calls]]

\* Lines 248-298, test being the result of line 244
gdp_features(s, X, w, y, val, test, X_unlabeled, num_bag_folds, groups, warnings) ==
    IF test.raised /= None THEN Fail(s, test)
    ELSE gdp_bundle(s, w, y, val, test,
                    unify_features(s.feature_generator, X, val.X, test.X, X_unlabeled),
                    num_bag_folds, groups, warnings)

\* Lines 244-246, val being the result of line 241
gdp_test(s, X, w, y, val, X_test, X_unlabeled, holdout_frac_og, num_bag_folds, groups, warnings) ==
    IF val.raised /= None THEN Fail(s, val)
    ELSE gdp_features(s, X, w, y, val,
                      _apply_cleaner_transform(s, X_test, val.holdout_frac, holdout_frac_og,
                                               "test", TRUE),
                      X_unlabeled, num_bag_folds, groups, warnings)

\* Lines 236-243, spw being the result of line 235
gdp_val(s, spw, y, X_val, X_test, X_unlabeled, holdout_frac, holdout_frac_og, num_bag_folds, warnings) ==
    IF spw.raised /= None THEN Fail(s, spw)
    ELSE LET s4 == [s EXCEPT !.class_weights = spw.class_weights]
             Xw == extract_column(spw.X, s4.sample_weight)
             groups == None
         IN gdp_test(s4, Xw[1], Xw[2], [vals |-> y],
                     _apply_cleaner_transform(s4, X_val, holdout_frac, holdout_frac_og,
                                              "val", FALSE),
                     X_test, X_unlabeled, holdout_frac_og, num_bag_folds, groups, warnings)

\* Lines 227-235, adj being the result of lines 223-225
gdp_train(s, X, X_val, X_test, X_unlabeled, holdout_frac_og, adj) ==
    IF adj.raised /= None
    THEN Fail(s, [raised |-> adj.raised, message |-> <<"1 / num_rows">>])
    ELSE LET s2 == [s EXCEPT !.threshold = adj.threshold]
             cleaner == cleaner_fit(s2.problem_type, X, s2.threshold)
             Xy == extract_label(cleaner_transform(cleaner, X))
             label_cleaner == label_cleaner_construct(s2.problem_type, Xy[2])
             y == label_cleaner_transform(label_cleaner, Xy[2])
             s3 == [s2 EXCEPT !.cleaner = cleaner, !.label_cleaner = label_cleaner]
         IN gdp_val(s3, set_predefined_weights(s3, Xy[1], y), y, X_val, X_test,
                    X_unlabeled, adj.holdout_frac, holdout_frac_og, adj.num_bag_folds,
                    adj.warnings)

\* Lines 210-225, the splits being the results of lines 204-208
gdp_thresholds(s, X, X_val, X_test, X_unlabeled, holdout_frac, num_bag_folds) ==
    LET holdout_frac_og == holdout_frac
        holdout_frac1 == IF X_val /= NoneObj /\ label \in columns(X_val)
                         THEN <<1, 1>> ELSE holdout_frac
        proba == s.eval_metric /= None /\ needs_proba(s.eval_metric)
                     /\ s.problem_type = MULTICLASS
        s1 == IF proba
              THEN [s EXCEPT !.threshold = IF num_bag_folds > 0 THEN 2 ELSE 1]
              ELSE s
        X1 == IF proba /\ num_bag_folds > 0 /\ s.groups = None
              THEN augment_rare_classes(X) ELSE X
    IN gdp_train(s1, X1, X_val, X_test, X_unlabeled, holdout_frac_og,
                 adjust_threshold_if_necessary(X1.cols[label], s1.threshold, holdout_frac1,
                                               num_bag_folds, s1.problem_type))

\* What the failed check c of a split raises
non_finite(c) ==
    [raised |-> c.raised,
     message |-> <<"non-finite label", c.name, c.first_invalid_label_idx>>]

\* Lines 204-208, and then the stages above
general_data_processing_of(s0, X_in, X_val_in, X_test_in, X_unlabeled, holdout_frac_in, num_bag_folds_in) ==
    LET chk == _check_for_non_finite_values(X_in, "train", TRUE)
        chk_val == IF X_val_in /= NoneObj
                   THEN _check_for_non_finite_values(X_val_in, "val", FALSE)
                   ELSE [raised |-> None, X |-> X_val_in]
        chk_test == IF X_test_in /= NoneObj
                    THEN _check_for_non_finite_values(X_test_in, "test", FALSE)
                    ELSE [raised |-> None, X |-> X_test_in]
    IN
    IF chk.raised /= None THEN Fail(s0, non_finite(chk))
    ELSE IF chk_val.raised /= None THEN Fail(s0, non_finite(chk_val))
    ELSE IF chk_test.raised /= None THEN Fail(s0, non_finite(chk_test))
    ELSE gdp_thresholds(s0, chk.X, chk_val.X, chk_test.X, X_unlabeled,
                        holdout_frac_in, num_bag_folds_in)

----------------------------------------------------------------------------
(* Specification SpecGDP: a learner, the splits a caller holds, and         *)
(* general_data_processing called on them any number of times.              *)

MaxTrainRows == 2

SampleWeights == {None, "w", BALANCE_WEIGHT, AUTO_WEIGHT}
EvalMetrics == {None, "log_loss"}
InitialThresholds == {10}

NewLearner(problem_type, eval_metric, threshold, sample_weight, weight_evaluation) ==
    [problem_type |-> problem_type, eval_metric |-> eval_metric,
     threshold |-> threshold, sample_weight |-> sample_weight,
     weight_evaluation |-> weight_evaluation, groups |-> None,
     class_weights |-> NoneObj, cleaner |-> NoneObj, label_cleaner |-> NoneObj,
     feature_generator |-> UnfitGenerator]

\* A metric that needs probabilities is given to multiclass learners only: no
\* other problem type reads it
Learners ==
    {NewLearner(pt, em, th, sw, we) :
        pt \in ProblemTypes, em \in EvalMetrics, th \in InitialThresholds,
        sw \in SampleWeights, we \in BOOLEAN}
    \ {NewLearner(pt, "log_loss", th, sw, we) :
        pt \in ProblemTypes \ {MULTICLASS}, th \in InitialThresholds,
        sw \in SampleWeights, we \in BOOLEAN}

\* A split of n rows: with_weights adds a column named wname that holds the
\* weights 1, 2, ...
split_frame(n, base, labels, wname, with_weights) ==
    LET F == IF labels = NoneObj
             THEN features_frame(make_index("custom", n), base)
             ELSE labelled_frame(make_index("custom", n), base, labels.vals)
    IN IF with_weights THEN assign(F, wname, [i \in 1..n |-> <<i, 1>>]) ELSE F

\* The label columns of a training split: the vectors of classes up to
\* MaxTrainRows rows, rows of one class together, and a vector that holds a
\* non-finite label
TrainLabels ==
    {l \in SeqsUpTo(Classes, MaxTrainRows) :
        \A i \in 1..(Len(l) - 1) : sort_rank(l[i]) <= sort_rank(l[i + 1])}
    \cup {<<"a", "inf">>}

\* The label columns of a validation or test split: a class the training
\* data may hold, a class it never holds, both, and a non-finite label
ValLabels == {<<"c">>, <<"a", "c">>, <<"inf">>}
TestLabels == {<<"a">>}

EvalSplits(base, wname, with_weights, labels) ==
    {NoneObj}
    \cup {split_frame(1, base, NoneObj, wname, with_weights)}
    \cup {split_frame(Len(l), base, [vals |-> l], wname, with_weights) : l \in labels}

UnlabeledSplits == {NoneObj, features_frame(make_index("custom", 1), 300)}

\* The splits a caller can hold for a learner whose sample_weight is wname,
\* before any call
GDPArgs(wname) ==
    UNION {
        [X : {split_frame(Len(l), 0, [vals |-> l], wname, ww) : l \in TrainLabels},
         X_val : EvalSplits(100, wname, ww, ValLabels),
         X_test : EvalSplits(200, wname, ww, TestLabels),
         X_unlabeled : {NoneObj},
         holdout_frac : {<<1, 10>>},
         num_bag_folds : {0, 2}]
        : ww \in (IF wname \in {None, AUTO_WEIGHT} THEN {FALSE} ELSE BOOLEAN)}

InitGDP ==
    /\ self \in Learners
    /\ args \in GDPArgs(self.sample_weight)
    /\ ret = NoCall
    /\ called = FALSE
    /\ pc = "idle"
    /\ disk = NoDisk

\* One call: the caller passes the splits it holds and, from call to call,
\* unlabeled data or none; args records the arguments of the last call
general_data_processing ==
    \E X_unlabeled \in UnlabeledSplits :
        \E r \in {general_data_processing_of(self, args.X, args.X_val, args.X_test,
                                             X_unlabeled, args.holdout_frac,
                                             args.num_bag_folds)} :
           /\ self' = r.self
           /\ ret' = r.ret
           /\ args' = [args EXCEPT !.X_unlabeled = X_unlabeled]
           /\ called' = TRUE
           /\ UNCHANGED <<pc, disk>>

NextGDP == general_data_processing

SpecGDP == InitGDP /\ [][NextGDP]_vars

----------------------------------------------------------------------------
(* Properties of general_data_processing *)

\* The generator methods a call makes once the generator is fit
transform_calls(X_test) ==
    <<(<<"transform", "X_super">>)>>
    \o (IF X_test /= NoneObj THEN <<(<<"transform", "X_test">>)>> ELSE <<>>)

\* C5: over any sequence of general_data_processing calls on one learner the
\* feature generator is fit at most once: a call made while the generator
\* reports is_fit() invokes no fit, passes the combined frame (train, val,
\* unlabeled) and the test split, when present, through transform only, and
\* leaves the generator's fit state as the first fit made it.
C5_FitAtMostOnce ==
    [][/\ self'.feature_generator.fits <= 1
       /\ self.feature_generator.is_fit =>
             /\ self'.feature_generator = self.feature_generator
             /\ \A k \in DOMAIN ret'.generator_calls :
                   ret'.generator_calls[k][1] = "transform"
             /\ ret'.raised = None =>
                   ret'.generator_calls = transform_calls(ret'.X_test)]_vars

\* C5 witness: a call on a fit generator has returned; it was given unlabeled
\* data the fit never saw, and a test split, and only transform was called
C5_Witness ==
    /\ called
    /\ ret.raised = None
    /\ self.feature_generator.fits = 1
    /\ ret.generator_calls = <<(<<"transform", "X_super">>), (<<"transform", "X_test">>)>>
    /\ args.X_unlabeled /= NoneObj
    /\ ret.X_val /= NoneObj
    /\ Len(self.feature_generator.fit_on) < len(ret.X) + len(ret.X_val) + len(ret.X_unlabeled)

\* The frames a returned call re-sliced out of the combined frame, in the
\* order of the list that was concatenated (the third place is X_test_super)
resliced == <<ret.X, ret.X_val, NoneObj, ret.X_unlabeled>>

\* out has the row count and the index of the split given, and row for row
\* the features of the row under that key
same_rows(out, given) ==
    /\ out /= NoneObj
    /\ len(out) = len(given)
    /\ out.index = given.index
    /\ \A k \in 1..len(given) : out.cols["features"][k][1] = given.cols["x"][k]

present_rows(datasets) ==
    SumSeq([i \in DOMAIN datasets |->
               IF datasets[i] = NoneObj THEN 0 ELSE len(datasets[i])])

\* C6: whichever of the validation, test and unlabeled splits are present,
\* every frame re-sliced out of the combined frame has the row count and the
\* index (same keys, same order) its split had when it was concatenated, and
\* holds that split's rows; the output row counts sum to the concatenated
\* input row counts; an absent split comes back absent; the test split,
\* transformed apart, keeps its rows and index as well.
C6_ResliceKeepsSplits ==
    (called /\ ret.raised = None) =>
        /\ \A i \in DOMAIN ret.datasets_in :
              IF ret.datasets_in[i] = NoneObj
              THEN resliced[i] = NoneObj
              ELSE same_rows(resliced[i], ret.datasets_in[i])
        /\ present_rows(resliced) = present_rows(ret.datasets_in)
        /\ IF args.X_test = NoneObj
           THEN ret.X_test = NoneObj
           ELSE same_rows(ret.X_test, args.X_test)

\* C6 witness: a call returned with two training rows, a validation split
\* that lost a row to the cleaner, unlabeled data and a test split
C6_Witness ==
    /\ called
    /\ ret.raised = None
    /\ len(ret.X) = 2
    /\ ret.X_val /= NoneObj
    /\ len(ret.X_val) < len(args.X_val)
    /\ ret.X_unlabeled /= NoneObj
    /\ ret.X_test /= NoneObj
    /\ ret.X_unlabeled.index = args.X_unlabeled.index
    /\ ret.X_unlabeled.cols["features"][1][1] = args.X_unlabeled.cols["x"][1]

----------------------------------------------------------------------------
(* Specification SpecWeights: set_predefined_weights called on one learner,  *)
(* each time with a training frame and its encoded label vector.             *)

MaxWeightRows == 3
LabelCodes == {0, 1, 2}

\* The learners of every problem type and weighting strategy
WeightLearners ==
    {NewLearner(pt, None, 10, sw, FALSE) :
        pt \in ProblemTypes, sw \in {None, BALANCE_WEIGHT, AUTO_WEIGHT}}

\* A frame of features, a column named as the learner's sample_weight among
\* them or not, and the label codes of its rows
WeightArgs(s) ==
    {[X |-> IF clash
            THEN assign(features_frame(make_index("range", Len(y)), 0),
                        s.sample_weight, [i \in DOMAIN y |-> <<1, 1>>])
            ELSE features_frame(make_index("range", Len(y)), 0),
      y |-> y] :
        y \in SeqsUpTo(LabelCodes, MaxWeightRows),
        clash \in (IF s.sample_weight = BALANCE_WEIGHT THEN BOOLEAN ELSE {FALSE})}

InitWeights ==
    /\ self \in WeightLearners
    /\ args \in WeightArgs(self)
    /\ ret = NoCall
    /\ called = FALSE
    /\ pc = "idle"
    /\ disk = NoDisk

set_weights ==
    \E a \in WeightArgs(self) :
        \E r \in {set_predefined_weights(self, a.X, a.y)} :
           /\ self' = [self EXCEPT !.class_weights = r.class_weights]
           /\ ret' = r
           /\ args' = a
           /\ called' = TRUE
           /\ UNCHANGED <<pc, disk>>

NextWeights == set_weights

SpecWeights == InitWeights /\ [][NextWeights]_vars

\* C7: under the "balance" strategy on a binary or multiclass problem, the
\* class weights set_predefined_weights computes from a label vector give
\* every class c of the vector a weight with weight_c * count_c = n / k (n
\* rows, k classes), so weight * count is the same for all classes; each row
\* of the returned frame carries the weight of its class.
C7_BalancedProducts ==
    [][(self.class_weights = NoneObj /\ self'.class_weights /= NoneObj) =>
          LET y == args'.y
              n == Len(y)
              k == Cardinality(Range(y))
              weight == self'.class_weights.weights
          IN /\ self.sample_weight = BALANCE_WEIGHT
             /\ self.problem_type \in {BINARY, MULTICLASS}
             /\ DOMAIN weight = Range(y)
             /\ \A c \in Range(y) :
                   weight[c][1] * count_of(y, c) * k = n * weight[c][2]
             /\ \A c, d \in Range(y) :
                   weight[c][1] * count_of(y, c) * weight[d][2]
                      = weight[d][1] * count_of(y, d) * weight[c][2]
             /\ \A i \in DOMAIN y :
                   ret'.X.cols[BALANCE_WEIGHT][i] = weight[y[i]]]_vars

\* C7 witness: weights were computed for two rows of class 0 and one of
\* class 1: 3/(2*2) for class 0 and 3/(1*2) for class 1
C7_Witness ==
    /\ called
    /\ ret.raised = None
    /\ self.problem_type = MULTICLASS
    /\ args.y = <<0, 1, 0>>
    /\ self.class_weights /= NoneObj
    /\ FracEq(self.class_weights.weights[0], <<3, 4>>)
    /\ FracEq(self.class_weights.weights[1], <<3, 2>>)
    /\ ret.X.cols[BALANCE_WEIGHT] = <<(<<3, 4>>), (<<3, 2>>), (<<3, 4>>)>>

----------------------------------------------------------------------------
(* Properties of general_data_processing on the validation and test splits *)

\* The call returned, and its validation split carried the label column and
\* lost every row to the cleaner that was fit on the training data
val_all_discarded ==
    /\ called
    /\ ret.raised = None
    /\ args.X_val /= NoneObj
    /\ label \in columns(args.X_val)
    /\ len(cleaner_transform(self.cleaner, args.X_val)) = 0

\* C8: when a validation split that carries the label column loses every row
\* to the fitted cleaner, the split, its labels and its weights are discarded
\* (None, None, None), and the holdout fraction general_data_processing
\* returns is the one the caller passed in, not the 1 that was set for the
\* supplied validation split.
C8_DiscardedValRestoresHoldout ==
    val_all_discarded =>
        /\ ret.X_val = NoneObj
        /\ ret.y_val = NoneObj
        /\ ret.bundle_in.w_val = NoneObj
        /\ ret.datasets_in[2] = NoneObj
        /\ ret.holdout_frac = args.holdout_frac

\* C8 witness: a validation split of one row, with a weight column, whose
\* class the training data does not hold, was discarded and the caller's
\* holdout fraction 1/10 came back
C8_Witness ==
    /\ val_all_discarded
    /\ args.X_val.cols[label] = <<"c">>
    /\ self.sample_weight = "w"
    /\ "w" \in columns(args.X_val)
    /\ ret.X_val = NoneObj
    /\ ret.holdout_frac = <<1, 10>>
    /\ <<"all low frequency", "val">> \in ret.warnings

\* The call came to bundle the weights of its validation and test splits
reached_bundling == called /\ "bundle_in" \in DOMAIN ret

\* A split given to bundle_weights is present and has no weight vector
val_unweighted == ret.bundle_in.X_val /= NoneObj /\ ret.bundle_in.w_val = NoneObj
test_unweighted == ret.bundle_in.X_test /= NoneObj /\ ret.bundle_in.w_test = NoneObj

\* The error of lines 318-321 for the split of that name
missing_weights_error(name) ==
    /\ ret.raised = "ValueError"
    /\ ret.message = <<"sample_weight column", self.sample_weight, "missing from", name>>

\* A returned frame whose weight column holds the missing marker in every row
weights_all_missing(X) ==
    /\ X /= NoneObj
    /\ self.sample_weight \in columns(X)
    /\ \A i \in 1..len(X) : X.cols[self.sample_weight][i] = NaN

\* C9 as stated: with weight_evaluation enabled, every present validation or
\* test split without a weight vector makes the call fail with an error that
\* names that split and the weight column.
C9_EveryUnweightedSplitNamed ==
    (reached_bundling /\ self.weight_evaluation /\ self.sample_weight /= None) =>
        /\ val_unweighted => missing_weights_error("X_val")
        /\ test_unweighted => missing_weights_error("X_test")

\* C9, amended: with weight_evaluation enabled, a call that comes to bundle
\* the weights fails exactly when a present validation or test split has no
\* weight vector, and the error names the weight column and the first such
\* split, X_val before X_test: the test split is named only when the
\* validation split is absent or has its weights.  With weight_evaluation
\* disabled the call does not fail there, and every such split returns with
\* a weight column that holds the missing marker in every row.
C9_FirstUnweightedSplitNamed ==
    reached_bundling =>
        IF self.weight_evaluation
        THEN /\ val_unweighted => missing_weights_error("X_val")
             /\ (~val_unweighted /\ test_unweighted) => missing_weights_error("X_test")
             /\ (~val_unweighted /\ ~test_unweighted) => ret.raised = None
        ELSE /\ ret.raised = None
             /\ val_unweighted => weights_all_missing(ret.X_val)
             /\ test_unweighted => weights_all_missing(ret.X_test)

\* C9 witness: with weight_evaluation enabled, the validation split came with
\* its weights, the test split without, and the error names X_test
C9_Witness ==
    /\ reached_bundling
    /\ self.weight_evaluation
    /\ self.sample_weight = "w"
    /\ ret.bundle_in.X_val /= NoneObj
    /\ ret.bundle_in.w_val /= NoneObj
    /\ test_unweighted
    /\ missing_weights_error("X_test")

----------------------------------------------------------------------------
(* Properties of general_data_processing on its fatal errors *)

\* C12: whenever the weight specifier is "auto", data processing fails with
\* an error instead of returning prepared data, for every problem type
\* (binary, multiclass, regression, quantile) and every training set.
C12_AutoWeightFails ==
    (called /\ self.sample_weight = AUTO_WEIGHT) => ret.raised /= None

\* The call that ends here aborted with the error of bundle_weights
missing_weights_raised ==
    ret'.raised = "ValueError" /\ ret'.message[1] = "sample_weight column"

\* C16 as stated: whenever general_data_processing aborts with one of the
\* fatal input errors, the missing weights of a split under weight_evaluation
\* among them, a generator that was unfit before the call is unfit after it.
C16_ErrorLeavesGeneratorUnfit ==
    [][(~self.feature_generator.is_fit /\ ret'.raised /= None) =>
          ~self'.feature_generator.is_fit]_vars

\* C16, amended: when general_data_processing aborts with a non-finite
\* label, a weight-column name collision, the unsupported auto weighting or
\* a test row-count mismatch, a generator that was unfit before the call is
\* unfit after it; when it aborts for the missing weights of a split under
\* weight_evaluation, the generator has been fit by that call, once, and
\* stays fit.
C16_OnlyMissingWeightsFollowFit ==
    [][(~self.feature_generator.is_fit /\ ret'.raised /= None) =>
          IF missing_weights_raised
          THEN /\ self'.feature_generator.is_fit
               /\ self'.feature_generator.fits = 1
               /\ ret'.generator_calls[1] = <<"fit_transform", "X_super">>
          ELSE /\ self'.feature_generator = self.feature_generator
               /\ ret'.generator_calls = <<>>]_vars

\* C16 witness: a first call aborted with the weight-column name collision,
\* the cleaner already fit and the feature generator still unfit
C16_Witness ==
    /\ called
    /\ ret.raised = "ValueError"
    /\ ret.message = <<"column name", BALANCE_WEIGHT>>
    /\ self.cleaner /= NoneObj
    /\ ~self.feature_generator.is_fit

----------------------------------------------------------------------------
(* The persistence of the forecasting AbstractLearner, abstract_learner.py: *)
(* save, load_trainer and save_trainer.  A learner is a record of its       *)
(* trainer (NoneObj for None), is_trainer_present and trainer_path.         *)

\* The trainers a learner can hold, each with the path it saves itself under
Trainers == {[name |-> "trainer_1", path |-> "models_1"],
             [name |-> "trainer_2", path |-> "models_2"]}

\* AbstractLearner.__init__, lines 19-38, and the trainer a subclass's _fit
\* may have put into self.trainer
Learner(trainer, is_trainer_present) ==
    [trainer |-> trainer, is_trainer_present |-> is_trainer_present,
     trainer_path |-> None]

\* save, lines 109-118, on the learner s and the disk d.  trainer_saved and
\* learner_saved tell whether self.trainer.save() and save_pkl.save write
\* their file or raise.
save(s, d, trainer_saved, learner_saved) ==
    LET detach == s.trainer /= NoneObj /\ ~s.is_trainer_present
    IN IF detach /\ ~trainer_saved
       THEN [raised |-> "IOError", self |-> s, disk |-> d]          \* line 114 raises
       ELSE LET trainer == IF detach THEN s.trainer ELSE NoneObj     \* lines 111, 115
                d1 == IF detach THEN [d EXCEPT !.trainer[s.trainer.path] = s.trainer] ELSE d
                s1 == IF detach THEN [s EXCEPT !.trainer = NoneObj] ELSE s   \* line 116
            IN IF ~learner_saved
               THEN [raised |-> "IOError", self |-> s1, disk |-> d1]  \* line 117 raises
               ELSE [raised |-> None,
                     self |-> [s1 EXCEPT !.trainer = trainer],        \* line 118
                     disk |-> [d1 EXCEPT !.learner = s1]]

\* save_trainer, lines 143-149
save_trainer(s, d, trainer, trainer_saved, learner_saved) ==
    IF s.is_trainer_present
    THEN save([s EXCEPT !.trainer = trainer], d, trainer_saved, learner_saved)
    ELSE LET s1 == [s EXCEPT !.trainer_path = trainer.path]
         IN IF trainer_saved
            THEN [raised |-> None, self |-> s1,
                  disk |-> [d EXCEPT !.trainer[trainer.path] = trainer]]
            ELSE [raised |-> "IOError", self |-> s1, disk |-> d]

\* load_trainer, lines 134-141: the trainer in memory, else the trainer file
\* under self.trainer_path
load_trainer(s, d) ==
    IF s.trainer /= NoneObj THEN [raised |-> None, trainer |-> s.trainer]
    ELSE IF s.trainer_path \in TrainerPaths /\ d.trainer[s.trainer_path] /= NoneObj
    THEN [raised |-> None, trainer |-> d.trainer[s.trainer_path]]
    ELSE [raised |-> "FileNotFoundError", trainer |-> NoneObj]

----------------------------------------------------------------------------
(* Specification SpecSave: one learner that is saved, given trainers to     *)
(* save, and asked for its trainer, in any order.                           *)

InitSave ==
    /\ self \in {Learner(t, p) : t \in {NoneObj} \cup Trainers, p \in BOOLEAN}
    /\ args = [op |-> None]
    /\ ret = NoCall
    /\ called = FALSE
    /\ pc = "idle"
    /\ disk = NoDisk

learner_save ==
    \E trainer_saved, learner_saved \in BOOLEAN :
        \E r \in {save(self, disk, trainer_saved, learner_saved)} :
           /\ self' = r.self
           /\ disk' = r.disk
           /\ ret' = [raised |-> r.raised]
           /\ args' = [op |-> "save"]
           /\ called' = TRUE
           /\ UNCHANGED pc

learner_save_trainer ==
    \E trainer \in Trainers, trainer_saved, learner_saved \in BOOLEAN :
        \E r \in {save_trainer(self, disk, trainer, trainer_saved, learner_saved)} :
           /\ self' = r.self
           /\ disk' = r.disk
           /\ ret' = [raised |-> r.raised]
           /\ args' = [op |-> "save_trainer", trainer |-> trainer]
           /\ called' = TRUE
           /\ UNCHANGED pc

learner_load_trainer ==
    /\ ret' = load_trainer(self, disk)
    /\ args' = [op |-> "load_trainer"]
    /\ called' = TRUE
    /\ UNCHANGED <<self, disk, pc>>

NextSave == learner_save \/ learner_save_trainer \/ learner_load_trainer

SpecSave == InitSave /\ [][NextSave]_vars

\* C17: save() leaves the learner's in-memory trainer reference unchanged in
\* every outcome: for both values of is_trainer_present and whether or not
\* the write of the learner file succeeds, self.trainer after the call is
\* the trainer (or None) it was before the call.
C17_SaveKeepsTrainer ==
    [][args'.op = "save" => self'.trainer = self.trainer]_vars

----------------------------------------------------------------------------
(* DefaultLearner._fit, lines 43-160, and _update_infer_limit, lines        *)
(* 162-197.  Time is counted in ticks; a per-row time is a fraction.  A     *)
(* number that may be None is [val |-> n] or NoneObj, n a fraction <<p, q>> *)
(* for a float.                                                             *)

\* infer_limit - self.preprocess_1_time, line 178
budget_after(infer_limit, preprocess_1_time) ==
    <<infer_limit[1] * preprocess_1_time[2] - preprocess_1_time[1] * infer_limit[2],
      infer_limit[2] * preprocess_1_time[2]>>

\* Lines 188-196: a budget that is used up becomes 0 and is warned about
clamp_budget(infer_limit_new) ==
    IF infer_limit_new[1] <= 0
    THEN [infer_limit |-> [val |-> <<0, 1>>], warnings |-> {"budget is exceeded"}]
    ELSE [infer_limit |-> [val |-> infer_limit_new], warnings |-> {}]

\* _update_infer_limit, lines 162-197.  batch_len is len(X_batch), the rows
\* sample_df_for_time_func returned, and elapsed the time time_func measured
\* for transform_features on them.  The log message of lines 182-187 divides
\* self.preprocess_1_time, a float, by infer_limit.
_update_infer_limit(s, infer_limit_batch_size, infer_limit, batch_len, elapsed) ==
    LET preprocess_1_time == <<elapsed, batch_len>>                  \* line 170
        s1 == [s EXCEPT !.preprocess_1_time = [val |-> preprocess_1_time],
                        !.preprocess_1_batch_size = infer_limit_batch_size.val]
    IN IF infer_limit = NoneObj                                      \* line 177
       THEN [raised |-> None, self |-> s1, infer_limit |-> NoneObj, warnings |-> {}]
       ELSE IF infer_limit.val[1] = 0                                \* line 184
       THEN [raised |-> "ZeroDivisionError", self |-> s1,
             infer_limit |-> infer_limit, warnings |-> {}]
       ELSE LET r == clamp_budget(budget_after(infer_limit.val, preprocess_1_time))
            IN [raised |-> None, self |-> s1,
                infer_limit |-> r.infer_limit, warnings |-> r.warnings]

\* Lines 105-108: the time left for the trainer
time_limit_trainer_of(time_limit, time_fit_preprocessing) ==
    IF time_limit /= NoneObj /\ time_limit.val /= 0
    THEN [val |-> time_limit.val - time_fit_preprocessing]
    ELSE NoneObj

\* The trainer that self.trainer_type constructs, lines 110-126: it lives
\* under the path it is given and chooses a metric when it is given none
trainer_type(s, num_bag_folds) ==
    [path |-> s.model_context,
     num_classes |-> s.label_cleaner.num_classes,
     eval_metric |-> IF s.eval_metric = None THEN "default_metric" ELSE s.eval_metric,
     k_fold |-> num_bag_folds,
     is_fit |-> FALSE]

\* Line 128 with the assignment left out
set_trainer_path_skipped(s, trainer) == s

\* Line 128
set_trainer_path(s, trainer) == [s EXCEPT !.trainer_path = trainer.path]

\* Lines 129-130
set_eval_metric(s, trainer) ==
    IF s.eval_metric = None THEN [s EXCEPT !.eval_metric = trainer.eval_metric] ELSE s

\* save() of the tabular learner, inherited: the learner is written as one
\* unit, without a trainer object; learner_saved tells whether the file is
\* written or the write raises
DefaultLearner_save(s, d, learner_saved) ==
    IF learner_saved
    THEN [raised |-> None, self |-> s,
          disk |-> [d EXCEPT !.learner = [s EXCEPT !.trainer = NoneObj]]]
    ELSE [raised |-> "IOError", self |-> s, disk |-> d]

\* save_trainer() of the tabular learner, inherited: the trainer persists
\* itself under its path and the learner keeps that path
DefaultLearner_save_trainer(s, d, trainer, trainer_saved) ==
    LET s1 == [s EXCEPT !.trainer_path = trainer.path]
    IN IF trainer_saved
       THEN [raised |-> None, self |-> s1,
             disk |-> [d EXCEPT !.trainer[trainer.path] = trainer]]
       ELSE [raised |-> "IOError", self |-> s1, disk |-> d]

----------------------------------------------------------------------------
(* Specification SpecFit: one _fit call of a new learner, step by step.     *)
(* pc is the position of the call: "start", then "preprocessed" (line 108   *)
(* passed), "fitting" (self.save() returned, trainer.fit running),          *)
(* "fitted" (trainer.fit returned), "done", or "raised" when a step raised; *)
(* ret holds the locals of the call and, in ret.at, the call that raised.   *)

MaxElapsed == 2
MaxInferLimit == 2
MaxBatchSize == 2

\* A learner before its first fit, __init__ lines 30-40: the problem type is
\* given, so line 85 infers nothing, and there are no groups
FitLearners ==
    {NewLearner(pt, None, 10, None, FALSE)
        @@ [model_context |-> path, trainer |-> NoneObj, trainer_path |-> None,
            _time_limit |-> NoneObj, _time_fit_preprocessing |-> None,
            _time_fit_training |-> None, _time_fit_total |-> None,
            preprocess_1_time |-> NoneObj, preprocess_1_batch_size |-> None,
            _pre_X_rows |-> None, _post_X_rows |-> None]
        : pt \in {BINARY, MULTICLASS}, path \in TrainerPaths}

InferLimits == {NoneObj} \cup {[val |-> <<n, 1>>] : n \in 0..MaxInferLimit}

\* The arguments of _fit: training data that preprocesses and training data
\* with a non-finite label, no other split
FitArgs ==
    [X : {split_frame(Len(l), 0, [vals |-> l], None, FALSE)
            : l \in {<<"a", "a", "b", "b">>, <<"a", "inf">>}},
     X_val : {NoneObj}, X_test : {NoneObj}, X_unlabeled : {NoneObj},
     holdout_frac : {<<1, 10>>},
     num_bag_folds : {0},
     time_limit : {NoneObj} \cup {[val |-> n] : n \in {0, MaxElapsed}},
     infer_limit : InferLimits,
     infer_limit_batch_size : {NoneObj} \cup {[val |-> n] : n \in 1..MaxBatchSize}]

FitLocals ==
    [raised |-> None, at |-> None, data |-> NoneObj, infer_limit |-> NoneObj,
     time_limit_trainer |-> NoneObj, trainer |-> NoneObj, warnings |-> {}]

InitFit ==
    /\ self \in FitLearners
    /\ args \in FitArgs
    /\ ret = FitLocals
    /\ called = FALSE
    /\ pc = "start"
    /\ disk = NoDisk

\* Lines 99-108 once general_data_processing returned g: the inference
\* budget, then the preprocessing time and the time left for the trainer
fit_budget(g, batch_len, elapsed, time_fit_preprocessing) ==
    \E u \in {IF args.infer_limit_batch_size = NoneObj                \* lines 93, 98
              THEN [raised |-> None, self |-> g.self,
                    infer_limit |-> args.infer_limit, warnings |-> {}]
              ELSE _update_infer_limit(g.self, args.infer_limit_batch_size,
                                       args.infer_limit, batch_len, elapsed)} :
        IF u.raised /= None
        THEN /\ self' = u.self
             /\ ret' = [ret EXCEPT !.raised = u.raised, !.at = "_update_infer_limit"]
             /\ pc' = "raised"
        ELSE /\ self' = [u.self EXCEPT
                            !._post_X_rows = len(g.ret.X),
                            !._time_fit_preprocessing = time_fit_preprocessing]
             /\ ret' = [ret EXCEPT
                            !.data = g.ret, !.infer_limit = u.infer_limit,
                            !.warnings = u.warnings,
                            !.time_limit_trainer =
                                time_limit_trainer_of(args.time_limit,
                                                      time_fit_preprocessing)]
             /\ pc' = "preprocessed"

\* Lines 70-108: the data is preprocessed and the inference budget updated
fit_preprocess ==
    /\ pc = "start"
    /\ \E time_fit_preprocessing \in 0..MaxElapsed :
       \E elapsed \in 0..time_fit_preprocessing :
       \E batch_len \in 1..(IF args.infer_limit_batch_size = NoneObj THEN 1
                            ELSE args.infer_limit_batch_size.val) :
       \E g \in {general_data_processing_of(
                    [self EXCEPT !._time_limit = args.time_limit,
                                 !._pre_X_rows = len(args.X)],
                    args.X, args.X_val, args.X_test, args.X_unlabeled,
                    args.holdout_frac, args.num_bag_folds)} :
          IF g.ret.raised /= None
          THEN /\ self' = g.self
               /\ ret' = [ret EXCEPT !.raised = g.ret.raised,
                                     !.at = "general_data_processing"]
               /\ pc' = "raised"
          ELSE fit_budget(g, batch_len, elapsed, time_fit_preprocessing)
    /\ called' = TRUE
    /\ UNCHANGED <<args, disk>>

\* Lines 110-132: the trainer is constructed, the learner takes its path and
\* its metric and saves itself
fit_construct_and_save ==
    /\ pc = "preprocessed"
    /\ \E learner_saved \in BOOLEAN :
       \E trainer \in {trainer_type(self, ret.data.num_bag_folds)} :
       \E r \in {DefaultLearner_save(
                    set_eval_metric(set_trainer_path(self, trainer), trainer),
                    disk, learner_saved)} :
          /\ self' = r.self
          /\ disk' = r.disk
          /\ ret' = [ret EXCEPT !.trainer = trainer, !.raised = r.raised,
                                !.at = IF r.raised = None THEN None ELSE "save"]
          /\ pc' = IF r.raised = None THEN "fitting" ELSE "raised"
    /\ UNCHANGED <<args, called>>

\* Lines 133-147: trainer.fit returns, or raises
trainer_fit ==
    /\ pc = "fitting"
    /\ \E fit_returns \in BOOLEAN :
          IF fit_returns
          THEN /\ ret' = [ret EXCEPT !.trainer.is_fit = TRUE]
               /\ pc' = "fitted"
          ELSE /\ ret' = [ret EXCEPT !.raised = "TrainerError", !.at = "trainer.fit"]
               /\ pc' = "raised"
    /\ UNCHANGED <<self, args, called, disk>>

\* Lines 148-160: the trainer is persisted and the times of the fit are taken
fit_save_trainer ==
    /\ pc = "fitted"
    /\ \E trainer_saved \in BOOLEAN, time_fit_training \in 0..MaxElapsed :
       \E r \in {DefaultLearner_save_trainer(self, disk, ret.trainer, trainer_saved)} :
          /\ disk' = r.disk
          /\ IF r.raised /= None
             THEN /\ self' = r.self
                  /\ ret' = [ret EXCEPT !.raised = r.raised, !.at = "save_trainer"]
                  /\ pc' = "raised"
             ELSE /\ self' = [r.self EXCEPT
                                 !._time_fit_training = time_fit_training,
                                 !._time_fit_total =
                                     self._time_fit_preprocessing + time_fit_training]
                  /\ ret' = ret
                  /\ pc' = "done"
    /\ UNCHANGED <<args, called>>

NextFit == fit_preprocess \/ fit_construct_and_save \/ trainer_fit \/ fit_save_trainer

SpecFit == InitFit /\ [][NextFit]_vars


\* The _fit call got past general_data_processing with a batch size and an
\* inference budget, so that line 99 called _update_infer_limit
infer_limit_updated ==
    /\ pc /= "start"
    /\ ret.at /= "general_data_processing"
    /\ args.infer_limit_batch_size /= NoneObj
    /\ args.infer_limit /= NoneObj

\* C14: _update_infer_limit never aborts because of the budget: for every
\* infer_limit that is not None and every measured per-row preprocessing
\* time it returns max(0, infer_limit - preprocessing time), so the budget
\* handed to the trainer is never negative, and it returns 0 with a warning
\* when the remainder is <= 0.
C14_BudgetClampedNeverAborts ==
    infer_limit_updated =>
        /\ ret.at /= "_update_infer_limit"
        /\ FracEq(ret.infer_limit.val,
                  FracMax(<<0, 1>>,
                          budget_after(args.infer_limit.val, self.preprocess_1_time.val)))
        /\ ~FracLess(ret.infer_limit.val, <<0, 1>>)
        /\ (~FracLess(<<0, 1>>,
                      budget_after(args.infer_limit.val, self.preprocess_1_time.val))
               => (ret.infer_limit.val = <<0, 1>> /\ ret.warnings /= {}))

\* The learner file on disk, written with the path of the trainer of this fit
learner_on_disk ==
    /\ disk.learner /= NoneObj
    /\ ret.trainer /= NoneObj
    /\ disk.learner.trainer_path = ret.trainer.path

trainer_on_disk == \E p \in TrainerPaths : disk.trainer[p] /= NoneObj

\* C13: in every _fit run the learner saves itself, with trainer_path
\* already set to the path of the constructed trainer, before trainer.fit
\* is invoked, and the trainer is persisted by save_trainer only after
\* trainer.fit has returned; so when trainer.fit fails a saved learner
\* exists and save_trainer is never executed.
C13_SaveBeforeFitTrainerAfter ==
    /\ [](/\ (pc \in {"fitting", "fitted", "done"}
                 \/ ret.at \in {"trainer.fit", "save_trainer"}) => learner_on_disk
          /\ trainer_on_disk => (pc = "done" /\ ret.trainer.is_fit)
          /\ ret.at = "trainer.fit" => (learner_on_disk /\ ~trainer_on_disk))
    /\ [][/\ pc' \in {"fitting", "fitted"} => learner_on_disk'
          /\ disk'.trainer /= disk.trainer => (pc = "fitted" /\ ret.trainer.is_fit)
          /\ pc /= "raised"]_vars

\* trainer.fit raised in a _fit call
C13_Witness ==
    /\ pc = "raised"
    /\ ret.at = "trainer.fit"
    /\ disk.learner /= NoneObj
    /\ disk.learner.trainer_path = self.model_context
    /\ ~trainer_on_disk


=============================================================================
